---- MODULE Spec2Model ----
(***************************************************************************)
(* Model of the system-modes package: the SystemModeManager of core.py     *)
(* (mode registry, current-mode pointer, switch transition, status         *)
(* probes), the three stub modes of modes.py and the click commands of     *)
(* cli.py.                                                                 *)
(*                                                                         *)
(* Spec    : a manager driven through its public API by an arbitrary       *)
(*           caller, with stub modes and caller-defined SystemMode         *)
(*           subclasses whose enable()/disable() may return either value.  *)
(* SpecCLI : command-line invocations; every invocation is a fresh         *)
(*           process that builds a manager and registers the three stubs.  *)
(***************************************************************************)
EXTENDS Integers, Sequences, FiniteSets, TLC

VARIABLES modes, current_mode, reg_log, last, cli

vars == <<modes, current_mode, reg_log, last, cli>>

\* ---------------------------------------------------------------- bounds
\* number of register_mode calls an API caller makes on one manager
MaxRegs == 3

\* ---------------------------------------------------------------- values
\* Python's None (Optional[str] current_mode, absent option values)
None == "None"

\* Python truthiness of an Optional[str]: None and "" are falsy
Truthy(x) == x # None /\ x # ""

\* ------------------------------------------------- dict (insertion order)
\* A Python dict is a sequence of [key, value] entries in insertion order.
HasKey(d, k) == \E i \in 1..Len(d) : d[i].key = k

DictGet(d, k) == d[CHOOSE i \in 1..Len(d) : d[i].key = k].value

\* d[k] = v : an existing key keeps its position and gets the new value
DictSet(d, k, v) ==
  IF HasKey(d, k)
  THEN [i \in 1..Len(d) |-> IF d[i].key = k THEN [key |-> k, value |-> v] ELSE d[i]]
  ELSE Append(d, [key |-> k, value |-> v])

\* list(d.keys())
DictKeys(d) == [i \in 1..Len(d) |-> d[i].key]

\* ------------------------------------------------------------------ modes
GamingMode == [cls |-> "GamingMode", name |-> "gaming", description |-> "Gaming mode"]

AIMode == [cls |-> "AIMode", name |-> "ai", description |-> "AI mode"]

BalancedMode == [cls |-> "BalancedMode", name |-> "balanced", description |-> "Balanced mode"]

StubModes == {GamingMode, AIMode, BalancedMode}

\* names given to caller-defined subclasses of the abstract SystemMode
CustomNames == {"", "gaming"}

\* a caller-defined subclass of the abstract base class
SystemMode(n) == [cls |-> "SystemMode", name |-> n, description |-> "custom"]

\* the mode objects an API caller registers
ModeObjects == {GamingMode, BalancedMode} \cup {SystemMode(n) : n \in CustomNames}

\* possible return values of mode.enable(): the stubs return True, an
\* abstract SystemMode subclass returns any bool
enable(mode) == IF mode \in StubModes THEN {TRUE} ELSE BOOLEAN

\* possible return values of mode.disable()
disable(mode) == IF mode \in StubModes THEN {TRUE} ELSE BOOLEAN

\* arguments a caller passes to switch_to_mode
SwitchArgs == {m.name : m \in ModeObjects} \cup {"turbo"}

\* ---------------------------------------------------------------- manager
\* SystemModeManager.__init__ (_check_root only prints a warning)
NewManager == [modes |-> <<>>, current_mode |-> None]

\* register_mode keeping an already registered mode (dict.setdefault)
register_mode_first_wins(self, mode) ==
  IF HasKey(self.modes, mode.name) THEN self
  ELSE [self EXCEPT !.modes = Append(self.modes, [key |-> mode.name, value |-> mode])]

\* register_mode making the first registered mode the current one
register_mode_sets_current(self, mode) ==
  [modes |-> DictSet(self.modes, mode.name, mode),
   current_mode |-> IF self.current_mode = None THEN mode.name ELSE self.current_mode]

\* SystemModeManager.register_mode
register_mode(self, mode) ==
  [self EXCEPT !.modes = DictSet(self.modes, mode.name, mode)]

\* SystemModeManager.get_available_modes
get_available_modes(self) == DictKeys(self.modes)

\* SystemModeManager.get_current_mode
get_current_mode(self) == self.current_mode

\* the mode object disable() is called on by switch_to_mode, if any
DisableTarget(self) ==
  IF Truthy(self.current_mode) /\ HasKey(self.modes, self.current_mode)
  THEN <<DictGet(self.modes, self.current_mode)>>
  ELSE <<>>

\* switch_to_mode assigning current_mode whatever enable() returned
switch_to_mode_ignores_enable(self, mode_name, dis, en) ==
  IF ~HasKey(self.modes, mode_name)
  THEN [self |-> self, ret |-> FALSE, calls |-> <<>>,
        out |-> <<"not found">>]
  ELSE LET d == [i \in 1..Len(DisableTarget(self)) |->
                   [obj |-> DisableTarget(self)[i], method |-> "disable", result |-> dis]]
           e == [obj |-> DictGet(self.modes, mode_name), method |-> "enable", result |-> en]
       IN [self |-> [self EXCEPT !.current_mode = mode_name],
           ret |-> en,
           calls |-> d \o <<e>>,
           out |-> <<"switching", IF en THEN "switched" ELSE "failed">>]

\* switch_to_mode disabling the current mode before it looks the name up
switch_to_mode_disables_first(self, mode_name, dis, en) ==
  LET d == [i \in 1..Len(DisableTarget(self)) |->
              [obj |-> DisableTarget(self)[i], method |-> "disable", result |-> dis]]
  IN IF ~HasKey(self.modes, mode_name)
     THEN [self |-> self, ret |-> FALSE, calls |-> d, out |-> <<"not found">>]
     ELSE LET e == [obj |-> DictGet(self.modes, mode_name), method |-> "enable",
                    result |-> en]
          IN [self |-> IF en THEN [self EXCEPT !.current_mode = mode_name] ELSE self,
              ret |-> en,
              calls |-> d \o <<e>>,
              out |-> <<"switching", IF en THEN "switched" ELSE "failed">>]

\* switch_to_mode recording the requested name before it looks the name up
switch_to_mode_sets_unknown(self, mode_name, dis, en) ==
  IF ~HasKey(self.modes, mode_name)
  THEN [self |-> [self EXCEPT !.current_mode = mode_name], ret |-> FALSE,
        calls |-> <<>>, out |-> <<"not found">>]
  ELSE LET d == [i \in 1..Len(DisableTarget(self)) |->
                   [obj |-> DisableTarget(self)[i], method |-> "disable", result |-> dis]]
           e == [obj |-> DictGet(self.modes, mode_name), method |-> "enable", result |-> en]
       IN [self |-> IF en THEN [self EXCEPT !.current_mode = mode_name] ELSE self,
           ret |-> en,
           calls |-> d \o <<e>>,
           out |-> <<"switching", IF en THEN "switched" ELSE "failed">>]

\* SystemModeManager.switch_to_mode; dis and en are the values returned by
\* the disable() and enable() calls it makes
switch_to_mode(self, mode_name, dis, en) ==
  IF ~HasKey(self.modes, mode_name)
  THEN [self |-> self, ret |-> FALSE, calls |-> <<>>,
        out |-> <<"not found">>]
  ELSE LET d == [i \in 1..Len(DisableTarget(self)) |->
                   [obj |-> DisableTarget(self)[i], method |-> "disable", result |-> dis]]
           e == [obj |-> DictGet(self.modes, mode_name), method |-> "enable", result |-> en]
       IN [self |-> IF en THEN [self EXCEPT !.current_mode = mode_name] ELSE self,
           ret |-> en,
           calls |-> d \o <<e>>,
           out |-> <<"switching", IF en THEN "switched" ELSE "failed">>]

\* values the disable() and enable() calls of a switch on manager can return
Returns(manager, mode_name) ==
  {rv \in [dis : BOOLEAN, en : BOOLEAN] :
     /\ IF DisableTarget(manager) = <<>> THEN rv.dis = TRUE
        ELSE rv.dis \in disable(DisableTarget(manager)[1])
     /\ IF HasKey(manager.modes, mode_name)
        THEN rv.en \in enable(DictGet(manager.modes, mode_name))
        ELSE rv.en = TRUE}

\* ---------------------------------------------------------- status reader
\* text is a sequence of characters; a word stands for its characters
Whitespace == {" ", "\n"}

RECURSIVE LStrip(_)
LStrip(s) == IF s # <<>> /\ Head(s) \in Whitespace THEN LStrip(Tail(s)) ELSE s

RECURSIVE RStrip(_)
RStrip(s) ==
  IF s # <<>> /\ s[Len(s)] \in Whitespace THEN RStrip(SubSeq(s, 1, Len(s) - 1)) ELSE s

\* str.strip()
strip(s) == RStrip(LStrip(s))

\* str.split(",")[0]
RECURSIVE SplitFirst(_)
SplitFirst(s) ==
  IF s = <<>> \/ Head(s) = "," THEN <<>> ELSE <<Head(s)>> \o SplitFirst(Tail(s))

\* the sentinel of a failed probe
Unknown == <<"Unknown">>

Ok(data) == [err |-> "ok", data |-> data]

Err(e) == [err |-> e, data |-> <<>>]

\* outcomes of open(".../scaling_governor").read()
CpuOutcomes ==
  {Ok(<<"performance", "\n">>), Err("FileNotFoundError"), Err("PermissionError")}

\* outcomes of subprocess.run(["nvidia-smi", ...], check=True).stdout
GpuOutcomes ==
  {Ok(<<"Enabled", ",", " ", "x", "\n">>),
   Err("FileNotFoundError"), Err("CalledProcessError"), Err("PermissionError")}

\* outcomes of open("/proc/sys/vm/swappiness").read()
MemOutcomes ==
  {Ok(<<"60", "\n">>), Err("FileNotFoundError"), Err("PermissionError")}

\* a call either returns a value or raises an exception
Return(v) == [raised |-> None, value |-> v]

Raise(e) == [raised |-> e, value |-> None]

\* SystemModeManager._get_cpu_governor
_get_cpu_governor(f) ==
  IF f.err = "ok" THEN Return(strip(f.data))
  ELSE IF f.err \in {"FileNotFoundError", "PermissionError"} THEN Return(Unknown)
  ELSE Raise(f.err)

\* SystemModeManager._get_gpu_persistence
_get_gpu_persistence(p) ==
  IF p.err = "ok" THEN Return(SplitFirst(strip(p.data)))
  ELSE IF p.err \in {"CalledProcessError", "FileNotFoundError"} THEN Return(Unknown)
  ELSE Raise(p.err)

\* SystemModeManager._get_memory_swappiness
_get_memory_swappiness(f) ==
  IF f.err = "ok" THEN Return(strip(f.data))
  ELSE IF f.err \in {"FileNotFoundError", "PermissionError"} THEN Return(Unknown)
  ELSE Raise(f.err)

\* SystemModeManager.get_system_status: the dict display evaluates the
\* three probes in order, the first exception propagates
get_system_status(self, cpu, gpu, mem) ==
  LET c == _get_cpu_governor(cpu)
      g == _get_gpu_persistence(gpu)
      m == _get_memory_swappiness(mem)
  IN IF c.raised # None THEN Raise(c.raised)
     ELSE IF g.raised # None THEN Raise(g.raised)
     ELSE IF m.raised # None THEN Raise(m.raised)
     ELSE Return([cpu_governor |-> c.value,
                  gpu_persistence |-> g.value,
                  memory_swappiness |-> m.value,
                  current_mode |-> IF Truthy(self.current_mode)
                                   THEN self.current_mode ELSE "Unknown"])

\* SystemModeManager.list_modes: the lines it prints
list_modes(self) ==
  [i \in 1..Len(self.modes) |->
     [name |-> self.modes[i].key,
      current |-> self.modes[i].key = self.current_mode,
      description |-> self.modes[i].value.description]]

\* SystemModeManager.show_status: the lines it prints, or the exception
show_status(self, cpu, gpu, mem) ==
  LET status == get_system_status(self, cpu, gpu, mem)
  IN IF status.raised # None THEN status
     ELSE Return(<<status.value.cpu_governor, status.value.gpu_persistence,
                   status.value.memory_swappiness, status.value.current_mode>>)

\* ------------------------------------------------------------ observation
\* what the last operation was called with, returned, called and printed;
\* pre is the manager it was called on
Obs(op, arg, pre, ret, calls, out) ==
  [op |-> op, arg |-> arg, pre |-> pre, ret |-> ret, calls |-> calls, out |-> out]

Self == [modes |-> modes, current_mode |-> current_mode]

NoCli == [cmd |-> "none", mode |-> None, list |-> FALSE, status |-> FALSE, exit_code |-> 0]

Init ==
  /\ modes = NewManager.modes
  /\ current_mode = NewManager.current_mode
  /\ reg_log = <<>>
  /\ last = Obs("__init__", None, NewManager, None, <<>>, <<>>)
  /\ cli = NoCli

\* ---------------------------------------------------------------- actions
RegisterMode(mode) ==
  /\ Len(reg_log) < MaxRegs
  /\ LET new == register_mode(Self, mode)
     IN /\ modes' = new.modes
        /\ current_mode' = new.current_mode
        /\ reg_log' = Append(reg_log, mode)
        /\ last' = Obs("register_mode", mode, Self, None, <<>>, <<>>)
  /\ UNCHANGED cli

SwitchToMode(mode_name) ==
  \E rv \in Returns(Self, mode_name) :
    /\ LET r == switch_to_mode(Self, mode_name, rv.dis, rv.en)
       IN /\ modes' = r.self.modes
          /\ current_mode' = r.self.current_mode
          /\ last' = Obs("switch_to_mode", mode_name, Self, r.ret, r.calls, r.out)
    /\ UNCHANGED <<reg_log, cli>>

GetAvailableModes ==
  /\ last' = Obs("get_available_modes", None, Self, get_available_modes(Self), <<>>, <<>>)
  /\ UNCHANGED <<modes, current_mode, reg_log, cli>>

GetCurrentMode ==
  /\ last' = Obs("get_current_mode", None, Self, get_current_mode(Self), <<>>, <<>>)
  /\ UNCHANGED <<modes, current_mode, reg_log, cli>>

GetSystemStatus(cpu, gpu, mem) ==
  /\ last' = Obs("get_system_status", [cpu |-> cpu, gpu |-> gpu, mem |-> mem], Self,
                 get_system_status(Self, cpu, gpu, mem), <<>>, <<>>)
  /\ UNCHANGED <<modes, current_mode, reg_log, cli>>

ListModes ==
  /\ last' = Obs("list_modes", None, Self, None, <<>>, list_modes(Self))
  /\ UNCHANGED <<modes, current_mode, reg_log, cli>>

ShowStatus(cpu, gpu, mem) ==
  /\ last' = Obs("show_status", [cpu |-> cpu, gpu |-> gpu, mem |-> mem], Self,
                 show_status(Self, cpu, gpu, mem), <<>>, <<>>)
  /\ UNCHANGED <<modes, current_mode, reg_log, cli>>

\* -------------------------------------------------------------------- cli
\* the manager every command builds: SystemModeManager() followed by
\* register_mode(GamingMode()), register_mode(AIMode()), register_mode(BalancedMode())
CliManager ==
  register_mode(register_mode(register_mode(NewManager, GamingMode), AIMode), BalancedMode)

\* the values of click.Choice(["gaming", "ai", "balanced"])
Choice == {"gaming", "ai", "balanced"}

\* str.title() on the mode names
title(n) ==
  CASE n = "gaming" -> "Gaming"
    [] n = "ai" -> "Ai"
    [] n = "balanced" -> "Balanced"
    [] OTHER -> n

\* outcomes of the detailed nvidia-smi query and of parsing its lines
GpuTableOutcomes ==
  {"ok", "IndexError", "FileNotFoundError", "CalledProcessError", "PermissionError"}

\* the result of a command: the manager at exit, the process exit code,
\* the manager operation it ended with and what it observed
Exit(self, code, obs) == [self |-> self, exit_code |-> code, obs |-> obs]

\* cli._show_modes: the rows of the table
_show_modes(manager) ==
  [i \in 1..Len(manager.modes) |->
     [name |-> title(manager.modes[i].key),
      description |-> manager.modes[i].value.description,
      status |-> IF manager.modes[i].key = get_current_mode(manager)
                 THEN "Active" ELSE "Inactive"]]

\* cli._show_status: an exception of get_system_status is not caught and
\* ends the process with exit code 1; a failure of the GPU table is caught
_show_status(manager, cpu, gpu, mem, tbl) ==
  LET status == get_system_status(manager, cpu, gpu, mem)
      arg == [cpu |-> cpu, gpu |-> gpu, mem |-> mem]
  IN IF status.raised # None
     THEN Exit(manager, 1, Obs("get_system_status", arg, manager, status, <<>>, <<"traceback">>))
     ELSE Exit(manager, 0,
               Obs("get_system_status", arg, manager, status, <<>>,
                   <<"status table",
                     IF tbl = "ok" THEN "gpu table" ELSE "could not retrieve">>))

\* _switch_mode with the test of success inverted
_switch_mode_inverted(manager, mode, dis, en) ==
  LET r == switch_to_mode(manager, mode, dis, en)
      success == r.ret
  IN IF ~success
     THEN Exit(r.self, 0, Obs("switch_to_mode", mode, manager, r.ret, r.calls,
                              r.out \o <<"switched", "info">>))
     ELSE Exit(r.self, 1, Obs("switch_to_mode", mode, manager, r.ret, r.calls,
                              r.out \o <<"failed">>))

\* cli._switch_mode: sys.exit(1) when the switch fails
_switch_mode(manager, mode, dis, en) ==
  LET r == switch_to_mode(manager, mode, dis, en)
      success == r.ret
  IN IF success
     THEN Exit(r.self, 0, Obs("switch_to_mode", mode, manager, r.ret, r.calls,
                              r.out \o <<"switched", "info">>))
     ELSE Exit(r.self, 1, Obs("switch_to_mode", mode, manager, r.ret, r.calls,
                              r.out \o <<"failed">>))

\* cli.switch
cli_switch(mode, list, status, cpu, gpu, mem, tbl, dis, en) ==
  LET manager == CliManager
  IN IF list
     THEN Exit(manager, 0, Obs("get_current_mode", None, manager,
                               get_current_mode(manager), <<>>, _show_modes(manager)))
     ELSE IF status THEN _show_status(manager, cpu, gpu, mem, tbl)
     ELSE IF Truthy(mode) THEN _switch_mode(manager, mode, dis, en)
     ELSE Exit(manager, 0,
               Obs("get_current_mode", None, manager, get_current_mode(manager), <<>>,
                   <<IF Truthy(get_current_mode(manager))
                     THEN "current mode" ELSE "no mode active">> \o _show_modes(manager)))

\* cli.modes
cli_modes ==
  LET manager == CliManager
  IN Exit(manager, 0, Obs("get_current_mode", None, manager,
                          get_current_mode(manager), <<>>, _show_modes(manager)))

\* cli.status
cli_status(cpu, gpu, mem, tbl) == _show_status(CliManager, cpu, gpu, mem, tbl)

\* cli.enable
cli_enable(mode, dis, en) == _switch_mode(CliManager, mode, dis, en)

\* disable testing only that the current mode is not "balanced"
cli_disable_any_current(dis, en) ==
  LET manager == CliManager
      current == get_current_mode(manager)
  IN IF current # "balanced"
     THEN LET r == switch_to_mode(manager, "balanced", dis, en)
          IN Exit(r.self, 0, Obs("switch_to_mode", "balanced", manager, r.ret, r.calls,
                                 <<"disabling">> \o r.out \o <<"returned">>))
     ELSE Exit(manager, 0, Obs("get_current_mode", None, manager, current, <<>>,
                               <<"already balanced">>))

\* cli.disable: the result of switch_to_mode is not looked at
cli_disable(dis, en) ==
  LET manager == CliManager
      current == get_current_mode(manager)
  IN IF Truthy(current) /\ current # "balanced"
     THEN LET r == switch_to_mode(manager, "balanced", dis, en)
          IN Exit(r.self, 0, Obs("switch_to_mode", "balanced", manager, r.ret, r.calls,
                                 <<"disabling">> \o r.out \o <<"returned">>))
     ELSE Exit(manager, 0, Obs("get_current_mode", None, manager, current, <<>>,
                               <<"already balanced">>))

\* One invocation of the program: a fresh process runs the command to its
\* exit; nothing of the previous invocation's manager survives.
CliRegLog == <<GamingMode, AIMode, BalancedMode>>

Invocation(cmd, mode, list, status, r) ==
  [cmd |-> cmd, mode |-> mode, list |-> list, status |-> status, exit_code |-> r.exit_code]

CliSwitch(mode, list, status) ==
  \E cpu \in CpuOutcomes, gpu \in GpuOutcomes, mem \in MemOutcomes,
     tbl \in GpuTableOutcomes, rv \in Returns(CliManager, mode) :
    LET r == cli_switch(mode, list, status, cpu, gpu, mem, tbl, rv.dis, rv.en)
    IN /\ modes' = r.self.modes
       /\ current_mode' = r.self.current_mode
       /\ reg_log' = CliRegLog
       /\ last' = r.obs
       /\ cli' = Invocation("switch", mode, list, status, r)

CliModes ==
  LET r == cli_modes
  IN /\ modes' = r.self.modes
     /\ current_mode' = r.self.current_mode
     /\ reg_log' = CliRegLog
     /\ last' = r.obs
     /\ cli' = Invocation("modes", None, FALSE, FALSE, r)

CliStatus ==
  \E cpu \in CpuOutcomes, gpu \in GpuOutcomes, mem \in MemOutcomes,
     tbl \in GpuTableOutcomes :
    LET r == cli_status(cpu, gpu, mem, tbl)
    IN /\ modes' = r.self.modes
       /\ current_mode' = r.self.current_mode
       /\ reg_log' = CliRegLog
       /\ last' = r.obs
       /\ cli' = Invocation("status", None, FALSE, FALSE, r)

CliEnable(mode) ==
  \E rv \in Returns(CliManager, mode) :
    LET r == cli_enable(mode, rv.dis, rv.en)
    IN /\ modes' = r.self.modes
       /\ current_mode' = r.self.current_mode
       /\ reg_log' = CliRegLog
       /\ last' = r.obs
       /\ cli' = Invocation("enable", mode, FALSE, FALSE, r)

CliDisable ==
  \E rv \in Returns(CliManager, "balanced") :
    LET r == cli_disable(rv.dis, rv.en)
    IN /\ modes' = r.self.modes
       /\ current_mode' = r.self.current_mode
       /\ reg_log' = CliRegLog
       /\ last' = r.obs
       /\ cli' = Invocation("disable", None, FALSE, FALSE, r)

NextCLI ==
  \/ \E mode \in Choice \cup {None}, list \in BOOLEAN, status \in BOOLEAN :
       CliSwitch(mode, list, status)
  \/ CliModes
  \/ CliStatus
  \/ \E mode \in Choice : CliEnable(mode)
  \/ CliDisable

SpecCLI == Init /\ [][NextCLI]_vars

Next ==
  \/ \E mode \in ModeObjects : RegisterMode(mode)
  \/ \E mode_name \in SwitchArgs : SwitchToMode(mode_name)
  \/ GetAvailableModes
  \/ GetCurrentMode
  \/ \E cpu \in CpuOutcomes, gpu \in GpuOutcomes, mem \in MemOutcomes :
       GetSystemStatus(cpu, gpu, mem)
  \/ ListModes
  \/ \E cpu \in CpuOutcomes, gpu \in GpuOutcomes, mem \in MemOutcomes :
       ShowStatus(cpu, gpu, mem)

Spec == Init /\ [][Next]_vars

\* ----------------------------------------------------------------- claims
IsSwitch == last.op = "switch_to_mode"

\* the switch was called with a registered name
Registered == IsSwitch /\ HasKey(last.pre.modes, last.arg)

\* C1: switch_to_mode(m) for a registered m returns what m's enable()
\* returned; afterwards current_mode is m if that was true and the pre-call
\* value if it was false, whatever mode was current before.
C1_SwitchFollowsEnable ==
  Registered =>
    /\ last.calls # <<>>
    /\ LET e == last.calls[Len(last.calls)]
       IN /\ e.method = "enable"
          /\ e.obj = DictGet(last.pre.modes, last.arg)
          /\ last.ret = e.result
    /\ current_mode = IF last.ret THEN last.arg ELSE last.pre.current_mode

\* switching to the mode that is already current succeeded again
C1_Witness ==
  /\ Registered
  /\ last.arg = "balanced"
  /\ last.pre.current_mode = "balanced"
  /\ last.ret = TRUE
  /\ current_mode = "balanced"

\* C2: switch_to_mode with a name that is not a key of the registry returns
\* false, leaves current_mode and the registry unchanged and calls neither
\* disable() nor enable().
C2_UnknownNameRejected ==
  (IsSwitch /\ ~HasKey(last.pre.modes, last.arg)) =>
    /\ last.ret = FALSE
    /\ current_mode = last.pre.current_mode
    /\ modes = last.pre.modes
    /\ last.calls = <<>>

\* an unknown name was asked for while a mode was current
C2_Witness ==
  /\ IsSwitch
  /\ ~HasKey(last.pre.modes, last.arg)
  /\ Truthy(last.pre.current_mode)
  /\ Len(last.pre.modes) >= 2

\* C3: in every state reached by register_mode and switch_to_mode calls,
\* current_mode is unset or a key of the registry.
C3_CurrentIsRegistered == current_mode = None \/ HasKey(modes, current_mode)

\* a mode is current after a switch that failed
C3_Witness ==
  /\ Registered
  /\ last.ret = FALSE
  /\ current_mode # None
  /\ current_mode # last.arg

\* C4: a switch to a registered mode while a mode c is current (not None)
\* calls disable() on c once and then enable() on the target once; with no
\* current mode it calls enable() only; the result is that of enable().
C4_DisableThenEnable ==
  Registered =>
    /\ Len(last.calls) = IF last.pre.current_mode # None THEN 2 ELSE 1
    /\ last.pre.current_mode # None =>
         /\ last.calls[1].method = "disable"
         /\ last.calls[1].obj = DictGet(last.pre.modes, last.pre.current_mode)
    /\ last.calls[Len(last.calls)].method = "enable"
    /\ last.calls[Len(last.calls)].obj = DictGet(last.pre.modes, last.arg)
    /\ last.ret = last.calls[Len(last.calls)].result
    /\ last.ret => current_mode = last.arg

\* C5: current_mode is None on a new manager and no operation other than
\* switch_to_mode changes it.
C5_OnlySwitchChangesCurrent ==
  /\ last.op = "__init__" => current_mode = None
  /\ ~IsSwitch => current_mode = last.pre.current_mode

\* the name that is current was registered again
C5_Witness ==
  /\ last.op = "register_mode"
  /\ last.arg.name = current_mode
  /\ DictGet(last.pre.modes, current_mode) # last.arg

\* the names registered so far
RegNames == {reg_log[i].name : i \in 1..Len(reg_log)}

\* position of the first and of the last registration under a name
FirstReg(n) == CHOOSE i \in 1..Len(reg_log) :
  reg_log[i].name = n /\ \A j \in 1..(i - 1) : reg_log[j].name # n

LastReg(n) == CHOOSE i \in 1..Len(reg_log) :
  reg_log[i].name = n /\ \A j \in (i + 1)..Len(reg_log) : reg_log[j].name # n

\* C6: the registry has one entry per registered name, holding the mode
\* registered last under it, and get_available_modes() lists the names once
\* each in the order of their first registration.
C6_RegistryOrder ==
  LET names == get_available_modes(Self)
  IN /\ {names[i] : i \in 1..Len(names)} = RegNames
     /\ Len(names) = Cardinality(RegNames)
     /\ \A n \in RegNames : DictGet(modes, n) = reg_log[LastReg(n)]
     /\ \A i, j \in 1..Len(names) : i < j => FirstReg(names[i]) < FirstReg(names[j])

\* A, B and then another mode under A's name were registered
C6_Witness ==
  /\ Len(reg_log) = 3
  /\ reg_log[1].name = reg_log[3].name
  /\ reg_log[1] # reg_log[3]
  /\ reg_log[2].name # reg_log[1].name
  /\ last.op = "get_available_modes"
  /\ last.ret = <<reg_log[1].name, reg_log[2].name>>

\* what a probe reports when nothing of it is escalated
Reported(outcome, value) == IF outcome.err = "ok" THEN value ELSE Unknown

\* C7: whatever the three probes do, get_system_status() returns a snapshot
\* of four keys; a failed probe reports "Unknown", a successful one its
\* value, and current_mode is the current name, or "Unknown" when unset.
C7_StatusNeverEscalates ==
  last.op = "get_system_status" =>
    /\ last.ret.raised = None
    /\ DOMAIN last.ret.value =
         {"cpu_governor", "gpu_persistence", "memory_swappiness", "current_mode"}
    /\ last.ret.value.cpu_governor = Reported(last.arg.cpu, strip(last.arg.cpu.data))
    /\ last.ret.value.gpu_persistence =
         Reported(last.arg.gpu, SplitFirst(strip(last.arg.gpu.data)))
    /\ last.ret.value.memory_swappiness = Reported(last.arg.mem, strip(last.arg.mem.data))
    /\ last.ret.value.current_mode =
         IF last.pre.current_mode = None THEN "Unknown" ELSE last.pre.current_mode

\* C8: the disable command switches to "balanced" exactly when the manager
\* it reads has a current mode other than "balanced"; that manager is new,
\* so no invocation of disable switches: it calls no enable() or disable(),
\* leaves current_mode unset and exits with 0.
C8_DisableNeverSwitches ==
  cli.cmd = "disable" =>
    /\ IsSwitch <=> (last.pre.current_mode \notin {None, "", "balanced"})
    /\ last.pre.current_mode = None
    /\ last.calls = <<>>
    /\ current_mode = None
    /\ cli.exit_code = 0

\* the disable command ran
C8_Witness ==
  /\ cli.cmd = "disable"
  /\ last.op = "get_current_mode"
  /\ last.out = <<"already balanced">>

\* the invocation asks for a switch
RequestsSwitch ==
  \/ cli.cmd = "enable"
  \/ cli.cmd = "switch" /\ cli.mode # None /\ ~cli.list /\ ~cli.status

C10_FailedSwitchDisablesCurrent ==
  (Registered /\ last.pre.current_mode # None /\ last.ret = FALSE) =>
    /\ last.calls # <<>>
    /\ last.calls[1].method = "disable"
    /\ last.calls[1].obj = DictGet(last.pre.modes, last.pre.current_mode)
    /\ \A i \in 2..Len(last.calls) : ~(last.calls[i].method = "enable" /\ last.calls[i].result)
    /\ current_mode = last.pre.current_mode
====
